---- MODULE Spec2Model ----
(***************************************************************************)
(* Model of the attachment subsystem of sync_gateway, db/attachment.go:    *)
(* ingestion of the _attachments map of a revision body into the           *)
(* content-addressed bucket (storeAttachments), discovery of attachments   *)
(* (findAttachments) and retrieval of an attachment as a delta or in full  *)
(* (GetAttachmentMaybeAsDelta).                                            *)
(*                                                                         *)
(* Go values are modelled as tagged records: [type |-> "nil"],             *)
(* [type |-> "string"] (any non-map scalar), [type |-> "map", val |-> f].  *)
(* A metadata map is a function whose DOMAIN is the set of keys present.   *)
(* A []byte is a sequence of small integers.                               *)
(***************************************************************************)
EXTENDS Integers, Sequences, FiniteSets, TLC

(***************************************************************************)
(* Bounds of the model.                                                    *)
(***************************************************************************)
\* attachment bodies are the one-byte blobs <<1>> .. <<MaxByte>>
MaxByte == 2
\* highest revision generation that is ingested
MaxGen == 2
\* a revpos is a generation: the highest one a client writes into a stub
MaxRevpos == MaxGen

Procs == {1, 2}
Names == {"a", "b"}
Blobs == {<<b>> : b \in 1..MaxByte}

(***************************************************************************)
(* Go values.                                                              *)
(***************************************************************************)
Nil == [type |-> "nil"]
Scalar == [type |-> "string"]
MapVal(m) == [type |-> "map", val |-> m]
IsMap(v) == v.type = "map"

Has(m, k) == k \in DOMAIN m
Put(m, k, v) == [x \in DOMAIN m \cup {k} |-> IF x = k THEN v ELSE m[x]]
Del(m, k) == [x \in DOMAIN m \ {k} |-> m[x]]
EmptyMap == [x \in {} |-> Nil]

(***************************************************************************)
(* HELPERS (attachment.go:308-350)                                         *)
(***************************************************************************)
\* "sha1-" + base64(sha1(data)): an injective tagging of the bytes.
SHA1DigestKey(data) == <<"sha1-", data>>

\* attachmentKeyToDocKey with a slip: the key is left out of the address.
attachmentKeyToDocKey_DropsKey(key) == <<"_sync:att:">>

\* "_sync:att:" + key
attachmentKeyToDocKey(key) == <<"_sync:att:">> \o key

\* body.Attachments(): the "_attachments" property if it is a map, else nil.
Attachments(body) == IF IsMap(body.atts) THEN body.atts ELSE Nil

\* base64.StdEncoding: a byte x is written as the character 64 + x; a
\* character below 64 is outside the alphabet and fails to decode.
Base64Encode(bytes) == [i \in 1..Len(bytes) |-> bytes[i] + 64]
Base64DecodeString(s) ==
    IF \A i \in 1..Len(s) : s[i] > 64
    THEN [err |-> "nil", val |-> [i \in 1..Len(s) |-> s[i] - 64]]
    ELSE [err |-> "corrupt", val |-> <<>>]

\* decodeData: []byte as is, string base64-decoded (base64's own error on
\* corrupt input), anything else a 400.
decodeData(data) ==
    CASE data.type = "bytes"  -> [err |-> "nil", val |-> data.val]
      [] data.type = "string" -> Base64DecodeString(data.val)
      [] OTHER                -> [err |-> "400", val |-> <<>>]

(***************************************************************************)
(* The bucket (external key-value store).  A function from the document    *)
(* keys present to their raw values.                                       *)
(***************************************************************************)
\* Bucket.GetRaw: the value, or nil for a missing key.
GetRaw(b, k) == IF k \in DOMAIN b THEN [err |-> "nil", val |-> b[k]]
                ELSE [err |-> "404", val |-> <<>>]

\* Bucket.AddRaw: adds the value only if the key is absent; an existing key
\* is not an error.  `fails` is an infrastructure failure of the bucket.
AddRaw(b, k, v, fails) ==
    IF fails THEN [err |-> "500", bucket |-> b]
    ELSE IF k \in DOMAIN b THEN [err |-> "nil", bucket |-> b]
    ELSE [err |-> "nil", bucket |-> Put(b, k, v)]

\* storeAttachment with a slip: a key that is already in the bucket (AddRaw
\* added nothing) is reported as an error.
storeAttachment_ErrOnDuplicate(b, attachment, fails) ==
    LET key == SHA1DigestKey(attachment)
        r == AddRaw(b, attachmentKeyToDocKey(key), attachment, fails)
    IN [key |-> key,
        err |-> IF r.err = "nil" /\ attachmentKeyToDocKey(key) \in DOMAIN b
                THEN "409" ELSE r.err,
        bucket |-> r.bucket]

\* storeAttachment (attachment.go:299-306)
storeAttachment(b, attachment, fails) ==
    LET key == SHA1DigestKey(attachment)
        r == AddRaw(b, attachmentKeyToDocKey(key), attachment, fails)
    IN [key |-> key, err |-> r.err, bucket |-> r.bucket]

(***************************************************************************)
(* Inputs: the attachment entries a client may send.                       *)
(***************************************************************************)
BytesData(b) == [type |-> "bytes", val |-> b]
StringData(s) == [type |-> "string", val |-> s]
NumberData == [type |-> "number", val |-> <<>>]

InlineMetas ==
    {[data |-> BytesData(b), content_type |-> "text/plain"] : b \in Blobs}
    \cup {[data |-> StringData(Base64Encode(<<1>>)), encoding |-> "gzip", length |-> 9],
          [data |-> NumberData]}

StubMetas ==
    {[stub |-> TRUE, revpos |-> r] : r \in 1..MaxRevpos}
    \cup {[stub |-> TRUE, revpos |-> r, digest |-> SHA1DigestKey(<<1>>)] : r \in 1..MaxRevpos}

InvalidMetas ==
    {[stub |-> TRUE, revpos |-> 0, digest |-> SHA1DigestKey(<<1>>)],
     [revpos |-> 1, digest |-> SHA1DigestKey(<<1>>)]}

Entries == {MapVal(m) : m \in InlineMetas \cup StubMetas \cup InvalidMetas} \cup {Scalar}

\* A body is modelled by its "_attachments" property.
Body(v) == [atts |-> v]
Bodies ==
    {Body(Nil), Body(Scalar)}
    \cup {Body(MapVal(f)) : f \in UNION {[S -> Entries] : S \in SUBSET Names}}

(***************************************************************************)
(* STORING ATTACHMENTS (attachment.go:225-296)                             *)
(***************************************************************************)
\* The normalized record that replaces an inline entry (attachment.go:253-269).
newMeta(meta, key, generation, attachment) ==
    LET m0 == [stub |-> TRUE, digest |-> key, revpos |-> generation]
        m1 == IF Has(meta, "content_type")
              THEN Put(m0, "content_type", meta.content_type) ELSE m0
    IN IF Has(meta, "encoding")
       THEN LET m2 == Put(Put(m1, "encoding", meta.encoding),
                          "encoded_length", Len(attachment))
            IN IF Has(meta, "length") THEN Put(m2, "length", meta.length) ELSE m2
       ELSE Put(m1, "length", Len(attachment))

\* What one iteration of the loop returns to the action: the error (or
\* "nil"), whether atts[name] is assigned and to what, the bucket and the
\* parentAttachments afterwards, and the number of AddRaw and
\* getAvailableRev calls it made.
Outcome(err, set, entry, b, pAtts, wrote, got) ==
    [err |-> err, set |-> set, entry |-> entry, bucket |-> b,
     pAtts |-> pAtts, wrote |-> wrote, got |-> got]

\* The entry has data: store it (attachment.go:243-270).
inlineEntry(b, meta, generation, pAtts, addFails) ==
    LET dec == decodeData(meta.data)
        st == storeAttachment(b, dec.val, addFails)
    IN IF dec.err # "nil" THEN Outcome(dec.err, FALSE, Nil, b, pAtts, 0, 0)
       ELSE IF st.err # "nil" THEN Outcome(st.err, FALSE, Nil, st.bucket, pAtts, 1, 0)
       ELSE Outcome("nil", TRUE, MapVal(newMeta(meta, st.key, generation, dec.val)),
                    st.bucket, pAtts, 1, 0)

\* parent["_attachments"].(map[string]interface{}) of getAvailableRev's
\* result, nil when there is no parent body (attachment.go:282-284).
lookupParentAttachments(parent) ==
    IF parent.type = "nil" THEN Nil
    ELSE IF IsMap(parent.val.atts) THEN parent.val.atts ELSE Nil

\* stubEntry with a slip: the parent's record is copied but the revpos the
\* client sent is kept.
stubEntry_KeepsClientRevpos(b, name, meta, pAtts, parent) ==
    IF ~(Has(meta, "stub") /\ meta.stub = TRUE)
    THEN Outcome("400", FALSE, Nil, b, pAtts, 0, 0)
    ELSE IF ~Has(meta, "revpos") \/ meta.revpos < 1
    THEN Outcome("400", FALSE, Nil, b, pAtts, 0, 0)
    ELSE LET fetch == pAtts.type = "nil"
             pa == IF fetch THEN lookupParentAttachments(parent) ELSE pAtts
             got == IF fetch THEN 1 ELSE 0
         IN IF pa.type # "nil"
            THEN IF Has(pa.val, name)
                 THEN Outcome("nil", TRUE,
                              MapVal(Put(pa.val[name].val, "revpos", meta.revpos)),
                              b, pa, 0, got)
                 ELSE Outcome("nil", FALSE, Nil, b, pa, 0, got)
            ELSE IF ~Has(meta, "digest")
                 THEN Outcome("400", FALSE, Nil, b, pa, 0, got)
                 ELSE Outcome("nil", FALSE, Nil, b, pa, 0, got)

\* The entry has no data: it must be a stub repeating a parent attachment
\* (attachment.go:273-292).  `parent` is what getAvailableRev returns.
stubEntry(b, name, meta, pAtts, parent) ==
    IF ~(Has(meta, "stub") /\ meta.stub = TRUE)
    THEN Outcome("400", FALSE, Nil, b, pAtts, 0, 0)
    ELSE IF ~Has(meta, "revpos") \/ meta.revpos < 1
    THEN Outcome("400", FALSE, Nil, b, pAtts, 0, 0)
    ELSE LET fetch == pAtts.type = "nil"
             pa == IF fetch THEN lookupParentAttachments(parent) ELSE pAtts
             got == IF fetch THEN 1 ELSE 0
         IN IF pa.type # "nil"
            THEN IF Has(pa.val, name)
                 THEN Outcome("nil", TRUE, pa.val[name], b, pa, 0, got)
                 ELSE Outcome("nil", FALSE, Nil, b, pa, 0, got)
            ELSE IF ~Has(meta, "digest")
                 THEN Outcome("400", FALSE, Nil, b, pa, 0, got)
                 ELSE Outcome("nil", FALSE, Nil, b, pa, 0, got)

\* loopBody with a slip: an entry that is not a map is skipped.
loopBody_SkipsNonMap(b, name, value, generation, pAtts, parent, addFails) ==
    IF ~IsMap(value) THEN Outcome("nil", FALSE, Nil, b, pAtts, 0, 0)
    ELSE IF Has(value.val, "data")
         THEN inlineEntry(b, value.val, generation, pAtts, addFails)
         ELSE stubEntry(b, name, value.val, pAtts, parent)

\* One iteration of `for name, value := range atts` (attachment.go:236-294).
loopBody(b, name, value, generation, pAtts, parent, addFails) ==
    IF ~IsMap(value) THEN Outcome("400", FALSE, Nil, b, pAtts, 0, 0)
    ELSE IF Has(value.val, "data")
         THEN inlineEntry(b, value.val, generation, pAtts, addFails)
         ELSE stubEntry(b, name, value.val, pAtts, parent)

(***************************************************************************)
(* State.                                                                  *)
(***************************************************************************)
VARIABLES
    bucket,             \* db.Bucket: document key -> raw value
    curGen,             \* generation of the document's current revision, 0: none
    curBody,            \* body of the current revision
    pc,                 \* per request: "idle", "range" (in the loop), "done"
    body,               \* per request: the body being stored (mutated in place)
    orig,               \* per request: the body as the client sent it
    generation,         \* per request: storeAttachments' generation argument
    parentRev,          \* per request: storeAttachments' parentRev argument
    parentDoc,          \* per request: the body of revision parentRev, or Nil
    parentAttachments,  \* per request: the local variable of that name
    todo,               \* per request: names the range loop has not visited yet
    err,                \* per request: the error returned ("nil": none)
    failed,             \* per request: the entry whose iteration returned the error
    infra,              \* per request: an AddRaw of this call failed in the bucket
    writes,             \* per request: AddRaw calls made by this call
    revGets,            \* per request: getAvailableRev calls made by this call
    cache,              \* the delta cache
    lastCall,           \* the last GetAttachmentMaybeAsDelta call: arguments and Ret
    findBody,           \* the body a reader passes to findAttachments
    findArgs,           \* the other arguments of the last findAttachments call
    attachments,        \* the []*Attachment it returned
    lastOp              \* the last operation on one of these handles

storeVars == <<bucket, curGen, curBody, pc, body, orig, generation, parentRev,
               parentDoc, parentAttachments, todo, err, failed, infra, writes,
               revGets>>

RevBody(b) == [type |-> "body", val |-> b]

\* No revision saved, no request in a call.
InitIdleStore ==
    /\ curGen = 0
    /\ curBody = Nil
    /\ pc = [p \in Procs |-> "idle"]
    /\ body = [p \in Procs |-> Body(Nil)]
    /\ orig = [p \in Procs |-> Body(Nil)]
    /\ generation = [p \in Procs |-> 0]
    /\ parentRev = [p \in Procs |-> 0]
    /\ parentDoc = [p \in Procs |-> Nil]
    /\ parentAttachments = [p \in Procs |-> Nil]
    /\ todo = [p \in Procs |-> {}]
    /\ err = [p \in Procs |-> "nil"]
    /\ failed = [p \in Procs |-> ""]
    /\ infra = [p \in Procs |-> FALSE]
    /\ writes = [p \in Procs |-> 0]
    /\ revGets = [p \in Procs |-> 0]

InitStore == bucket = EmptyMap /\ InitIdleStore

deltaVars == <<cache, lastCall>>
findVars == <<findBody, findArgs, attachments>>
handleVars == <<lastOp>>

callVars == <<curGen, curBody, pc, body, orig, generation, parentRev, parentDoc,
              parentAttachments, todo, err, failed, infra, writes, revGets>>

\* storeAttachments is entered with body b as a child of the current
\* revision (attachment.go:230-235): a non-map _attachments is rejected, an
\* empty or absent map returns at once, otherwise the loop starts.
StoreAttachmentsBegin(p, b) ==
    /\ pc[p] = "idle"
    /\ curGen < MaxGen
    /\ LET atts == Attachments(b)
           invalid == atts.type = "nil" /\ b.atts.type # "nil"
           names == IF atts.type = "nil" THEN {} ELSE DOMAIN atts.val
       IN /\ pc' = [pc EXCEPT ![p] = IF invalid \/ names = {} THEN "done" ELSE "range"]
          /\ err' = [err EXCEPT ![p] = IF invalid THEN "400" ELSE "nil"]
          /\ todo' = [todo EXCEPT ![p] = names]
    /\ body' = [body EXCEPT ![p] = b]
    /\ orig' = [orig EXCEPT ![p] = b]
    /\ generation' = [generation EXCEPT ![p] = curGen + 1]
    /\ parentRev' = [parentRev EXCEPT ![p] = curGen]
    /\ parentDoc' = [parentDoc EXCEPT ![p] = curBody]
    /\ parentAttachments' = [parentAttachments EXCEPT ![p] = Nil]
    /\ failed' = [failed EXCEPT ![p] = ""]
    /\ infra' = [infra EXCEPT ![p] = FALSE]
    /\ writes' = [writes EXCEPT ![p] = 0]
    /\ revGets' = [revGets EXCEPT ![p] = 0]
    /\ UNCHANGED <<bucket, curGen, curBody, deltaVars, findVars, handleVars>>

\* getAvailableRev(doc, parentRev): the body of the parent revision, or nil
\* when the revision tree no longer holds it.
getAvailableRev(p, available) ==
    IF available /\ parentDoc[p].type # "nil" THEN parentDoc[p] ELSE Nil

\* The range loop visits `name`; an error returns at once, and so does the
\* end of the map (attachment.go:236-295).
StoreAttachmentsEntry(p, name, available, addFails) ==
    /\ pc[p] = "range"
    /\ name \in todo[p]
    /\ LET r == loopBody(bucket, name, body[p].atts.val[name], generation[p],
                         parentAttachments[p], getAvailableRev(p, available), addFails)
           rest == todo[p] \ {name}
       IN /\ bucket' = r.bucket
          /\ body' = IF r.set
                     THEN [body EXCEPT ![p] =
                              Body(MapVal(Put(body[p].atts.val, name, r.entry)))]
                     ELSE body
          /\ parentAttachments' = [parentAttachments EXCEPT ![p] = r.pAtts]
          /\ writes' = [writes EXCEPT ![p] = @ + r.wrote]
          /\ revGets' = [revGets EXCEPT ![p] = @ + r.got]
          /\ err' = [err EXCEPT ![p] = r.err]
          /\ failed' = [failed EXCEPT ![p] = IF r.err # "nil" THEN name ELSE ""]
          /\ infra' = [infra EXCEPT ![p] = addFails /\ r.wrote = 1]
          /\ todo' = [todo EXCEPT ![p] = rest]
          /\ pc' = [pc EXCEPT ![p] = IF r.err # "nil" \/ rest = {} THEN "done" ELSE "range"]
    /\ UNCHANGED <<curGen, curBody, orig, generation, parentRev, parentDoc,
                   deltaVars, findVars, handleVars>>

\* The caller of storeAttachments: after a successful call the body becomes
\* the document's new current revision, unless another request has saved a
\* revision in between; after an error nothing is saved.
Save(p) ==
    /\ pc[p] = "done"
    /\ IF err[p] = "nil" /\ parentRev[p] = curGen
       THEN /\ curGen' = generation[p]
            /\ curBody' = RevBody(body[p])
       ELSE UNCHANGED <<curGen, curBody>>
    /\ pc' = [pc EXCEPT ![p] = "idle"]
    /\ body' = [body EXCEPT ![p] = Body(Nil)]
    /\ orig' = [orig EXCEPT ![p] = Body(Nil)]
    /\ generation' = [generation EXCEPT ![p] = 0]
    /\ parentRev' = [parentRev EXCEPT ![p] = 0]
    /\ parentDoc' = [parentDoc EXCEPT ![p] = Nil]
    /\ parentAttachments' = [parentAttachments EXCEPT ![p] = Nil]
    /\ todo' = [todo EXCEPT ![p] = {}]
    /\ err' = [err EXCEPT ![p] = "nil"]
    /\ failed' = [failed EXCEPT ![p] = ""]
    /\ infra' = [infra EXCEPT ![p] = FALSE]
    /\ writes' = [writes EXCEPT ![p] = 0]
    /\ revGets' = [revGets EXCEPT ![p] = 0]
    /\ UNCHANGED <<bucket, deltaVars, findVars, handleVars>>

\* The caller drops the outcome of the call (the request fails for another
\* reason, or its document update is retried): nothing is saved.
Discard(p) ==
    /\ pc[p] = "done"
    /\ pc' = [pc EXCEPT ![p] = "idle"]
    /\ body' = [body EXCEPT ![p] = Body(Nil)]
    /\ orig' = [orig EXCEPT ![p] = Body(Nil)]
    /\ generation' = [generation EXCEPT ![p] = 0]
    /\ parentRev' = [parentRev EXCEPT ![p] = 0]
    /\ parentDoc' = [parentDoc EXCEPT ![p] = Nil]
    /\ parentAttachments' = [parentAttachments EXCEPT ![p] = Nil]
    /\ todo' = [todo EXCEPT ![p] = {}]
    /\ err' = [err EXCEPT ![p] = "nil"]
    /\ failed' = [failed EXCEPT ![p] = ""]
    /\ infra' = [infra EXCEPT ![p] = FALSE]
    /\ writes' = [writes EXCEPT ![p] = 0]
    /\ revGets' = [revGets EXCEPT ![p] = 0]
    /\ UNCHANGED <<bucket, curGen, curBody, deltaVars, findVars, handleVars>>


(***************************************************************************)
(* LOADING ATTACHMENTS: GetAttachmentMaybeAsDelta (attachment.go:178-223)  *)
(*                                                                         *)
(* A []byte result is Nil or BytesData(bytes); the empty AttachmentKey ""  *)
(* is NoKey.  The delta cache is a function from the pairs                 *)
(* <<sourceKey, key>> that have an entry to the cached payload, the empty  *)
(* payload being the "not worth using" entry.                              *)
(***************************************************************************)
NoKey == <<>>

\* The attachment that is asked for, and the keys of its earlier versions.
TargetBlob == <<0>>
TargetKey == SHA1DigestKey(TargetBlob)
SourceKeys == {SHA1DigestKey(b) : b \in Blobs}

\* The delta of target against src, as the codec writes it: never empty.
ZDelta(src, target) == <<200>> \o src \o target

\* db.getCachedAttachmentZDelta: the cached payload, or nil.
getCachedAttachmentZDelta(c, sourceKey, key) ==
    IF <<sourceKey, key>> \in DOMAIN c THEN BytesData(c[<<sourceKey, key>>]) ELSE Nil

\* db.generateAttachmentZDelta: the codec answers with a delta, with the
\* empty delta ("not worth using"), or fails (nil); `codec` says which for
\* each source key.
generateAttachmentZDelta(src, target, sourceKey, key, codec) ==
    CASE codec[sourceKey] = "delta" -> BytesData(ZDelta(src, target))
      [] codec[sourceKey] = "empty" -> BytesData(<<>>)
      [] OTHER                      -> Nil

\* db.GetAttachment (attachment.go:179-181): the blob, Nil with an error
\* when the bucket does not hold it.
GetAttachment(b, key) ==
    LET r == GetRaw(b, attachmentKeyToDocKey(key))
    IN [err |-> r.err, val |-> IF r.err = "nil" THEN BytesData(r.val) ELSE Nil]

\* The values GetAttachmentMaybeAsDelta returns, with what it did on the
\* way: the source keys whose cache entry it queried, the document keys it
\* fetched from the bucket, and the source keys it invoked the codec for.
Ret(result, sourceKey, e, queried, fetched, invoked) ==
    [result |-> result, sourceKey |-> sourceKey, err |-> e,
     queried |-> queried, fetched |-> fetched, invoked |-> invoked]

\* The first loop with a slip: an empty cache entry is passed over, and the
\* loop goes on to the next candidate.
RECURSIVE cachedPhase_SkipsEmptyEntry(_, _, _, _, _, _)
cachedPhase_SkipsEmptyEntry(c, b, key, sourceKeys, i, queried) ==
    IF i > Len(sourceKeys) THEN [hit |-> FALSE, queried |-> queried]
    ELSE LET sourceKey == sourceKeys[i]
             result == getCachedAttachmentZDelta(c, sourceKey, key)
             q == Append(queried, sourceKey)
         IN IF result.type # "nil" /\ Len(result.val) # 0
            THEN [hit |-> TRUE, ret |-> Ret(result, sourceKey, "nil", q, <<>>, <<>>)]
            ELSE cachedPhase_SkipsEmptyEntry(c, b, key, sourceKeys, i + 1, q)

\* The first loop (attachment.go:187-197) from candidate i on.
RECURSIVE cachedPhase(_, _, _, _, _, _)
cachedPhase(c, b, key, sourceKeys, i, queried) ==
    IF i > Len(sourceKeys) THEN [hit |-> FALSE, queried |-> queried]
    ELSE LET sourceKey == sourceKeys[i]
             result == getCachedAttachmentZDelta(c, sourceKey, key)
             q == Append(queried, sourceKey)
         IN IF result.type # "nil"
            THEN IF Len(result.val) = 0
                 THEN LET t == GetAttachment(b, key)
                      IN [hit |-> TRUE,
                          ret |-> Ret(t.val, NoKey, t.err, q,
                                      <<attachmentKeyToDocKey(key)>>, <<>>)]
                 ELSE [hit |-> TRUE, ret |-> Ret(result, sourceKey, "nil", q, <<>>, <<>>)]
            ELSE cachedPhase(c, b, key, sourceKeys, i + 1, q)

\* The second loop with a slip: after an empty delta the loop goes on to
\* the next candidate.
RECURSIVE generatePhase_ContinuesAfterEmpty(_, _, _, _, _, _, _, _, _)
generatePhase_ContinuesAfterEmpty(b, key, target, sourceKeys, i, codec, queried, fetched, invoked) ==
    IF i > Len(sourceKeys)
    THEN Ret(BytesData(target), NoKey, "nil", queried, fetched, invoked)
    ELSE LET sourceKey == sourceKeys[i]
             src == GetRaw(b, attachmentKeyToDocKey(sourceKey))
             f == Append(fetched, attachmentKeyToDocKey(sourceKey))
         IN IF src.err = "nil"
            THEN LET result == generateAttachmentZDelta(src.val, target, sourceKey,
                                                         key, codec)
                     inv == Append(invoked, sourceKey)
                 IN IF result.type # "nil" /\ Len(result.val) # 0
                    THEN Ret(result, sourceKey, "nil", queried, f, inv)
                    ELSE generatePhase_ContinuesAfterEmpty(b, key, target, sourceKeys,
                                                           i + 1, codec, queried, f, inv)
            ELSE generatePhase_ContinuesAfterEmpty(b, key, target, sourceKeys, i + 1,
                                                   codec, queried, f, invoked)

\* The second loop with a slip: a candidate whose blob is missing ends the
\* call with the error of its fetch.
RECURSIVE generatePhase_ErrOnMissingSource(_, _, _, _, _, _, _, _, _)
generatePhase_ErrOnMissingSource(b, key, target, sourceKeys, i, codec, queried, fetched, invoked) ==
    IF i > Len(sourceKeys)
    THEN Ret(BytesData(target), NoKey, "nil", queried, fetched, invoked)
    ELSE LET sourceKey == sourceKeys[i]
             src == GetRaw(b, attachmentKeyToDocKey(sourceKey))
             f == Append(fetched, attachmentKeyToDocKey(sourceKey))
         IN IF src.err = "nil"
            THEN LET result == generateAttachmentZDelta(src.val, target, sourceKey,
                                                         key, codec)
                     inv == Append(invoked, sourceKey)
                 IN IF result.type # "nil"
                    THEN IF Len(result.val) = 0
                         THEN Ret(BytesData(target), NoKey, "nil", queried, f, inv)
                         ELSE Ret(result, sourceKey, "nil", queried, f, inv)
                    ELSE generatePhase_ErrOnMissingSource(b, key, target, sourceKeys,
                                                          i + 1, codec, queried, f, inv)
            ELSE Ret(Nil, sourceKey, src.err, queried, f, invoked)

\* The second loop (attachment.go:205-222) from candidate i on.
RECURSIVE generatePhase(_, _, _, _, _, _, _, _, _)
generatePhase(b, key, target, sourceKeys, i, codec, queried, fetched, invoked) ==
    IF i > Len(sourceKeys)
    THEN Ret(BytesData(target), NoKey, "nil", queried, fetched, invoked)
    ELSE LET sourceKey == sourceKeys[i]
             src == GetRaw(b, attachmentKeyToDocKey(sourceKey))
             f == Append(fetched, attachmentKeyToDocKey(sourceKey))
         IN IF src.err = "nil"
            THEN LET result == generateAttachmentZDelta(src.val, target, sourceKey,
                                                         key, codec)
                     inv == Append(invoked, sourceKey)
                 IN IF result.type # "nil"
                    THEN IF Len(result.val) = 0
                         THEN Ret(BytesData(target), NoKey, "nil", queried, f, inv)
                         ELSE Ret(result, sourceKey, "nil", queried, f, inv)
                    ELSE generatePhase(b, key, target, sourceKeys, i + 1, codec,
                                       queried, f, inv)
            ELSE generatePhase(b, key, target, sourceKeys, i + 1, codec,
                               queried, f, invoked)

\* GetAttachmentMaybeAsDelta with a slip: the target is loaded before the
\* cache is looked at.
GetAttachmentMaybeAsDelta_LoadsTargetFirst(c, b, key, sourceKeys, codec) ==
    LET first == cachedPhase(c, b, key, sourceKeys, 1, <<>>)
        target == GetAttachment(b, key)
    IN IF target.err # "nil"
       THEN Ret(Nil, NoKey, target.err, <<>>, <<attachmentKeyToDocKey(key)>>, <<>>)
       ELSE IF first.hit
            THEN [first.ret EXCEPT !.fetched = <<attachmentKeyToDocKey(key)>>]
            ELSE generatePhase(b, key, target.val.val, sourceKeys, 1, codec,
                               first.queried, <<attachmentKeyToDocKey(key)>>, <<>>)

\* GetAttachmentMaybeAsDelta (attachment.go:185-223).  When the target
\* cannot be fetched after the first loop, the named result sourceKey still
\* holds the last candidate the loop assigned to it.
GetAttachmentMaybeAsDelta(c, b, key, sourceKeys, codec) ==
    LET first == cachedPhase(c, b, key, sourceKeys, 1, <<>>)
        target == GetAttachment(b, key)
    IN IF first.hit THEN first.ret
       ELSE IF target.err # "nil"
            THEN Ret(Nil,
                     IF Len(sourceKeys) = 0 THEN NoKey ELSE sourceKeys[Len(sourceKeys)],
                     target.err, first.queried, <<attachmentKeyToDocKey(key)>>, <<>>)
            ELSE generatePhase(b, key, target.val.val, sourceKeys, 1, codec,
                               first.queried, <<attachmentKeyToDocKey(key)>>, <<>>)

\* What the codec answered in each of a call's invocations, in order.
Answers(invoked, codec) == [i \in 1..Len(invoked) |-> codec[invoked[i]]]

NoCall ==
    [key |-> NoKey, sourceKeys |-> <<>>, ret |-> Ret(Nil, NoKey, "nil", <<>>, <<>>, <<>>),
     answers |-> <<>>]
IdleDelta == cache = EmptyMap /\ lastCall = NoCall

\* A bucket that holds exactly the blobs of S, each at its own address.
AddressedBucket(S) ==
    [k \in {attachmentKeyToDocKey(SHA1DigestKey(x)) : x \in S} |->
        CHOOSE x \in S : attachmentKeyToDocKey(SHA1DigestKey(x)) = k]

\* The candidate lists: at most MaxByte distinct source keys, in any order.
CandidateLists ==
    {q \in UNION {[1..n -> SourceKeys] : n \in 0..MaxByte} :
        \A i, j \in 1..Len(q) : i # j => q[i] # q[j]}

\* The cache after the codec has stored what it computed during the call.
cacheAfter(c, key, invoked, codec, b) ==
    [pr \in DOMAIN c \cup {<<sk, key>> : sk \in {invoked[i] : i \in 1..Len(invoked)}
                                           \cap {x \in SourceKeys : codec[x] # "nil"}} |->
        IF pr[1] \in {invoked[i] : i \in 1..Len(invoked)} /\ codec[pr[1]] # "nil"
        THEN IF codec[pr[1]] = "empty" THEN <<>>
             ELSE ZDelta(b[attachmentKeyToDocKey(pr[1])], b[attachmentKeyToDocKey(key)])
        ELSE c[pr]]

\* A request resolves the target against a list of candidates.  The codec
\* stores its results in the cache when `stores`.
Resolve(sourceKeys, codec, stores) ==
    LET r == GetAttachmentMaybeAsDelta(cache, bucket, TargetKey, sourceKeys, codec)
    IN /\ lastCall' = [key |-> TargetKey, sourceKeys |-> sourceKeys, ret |-> r,
                       answers |-> Answers(r.invoked, codec)]
       /\ cache' = IF stores THEN cacheAfter(cache, TargetKey, r.invoked, codec, bucket)
                   ELSE cache
       /\ UNCHANGED <<bucket, callVars, findVars, handleVars>>

(***************************************************************************)
(* LOADING ATTACHMENTS: findAttachments (attachment.go:152-176)            *)
(***************************************************************************)
ListVal(q) == [type |-> "list", val |-> q]

\* type Attachment (attachment.go:28-35), as findAttachments builds it.
Attachment(name, meta, possibleDeltaSources) ==
    [Name |-> name, followingData |-> Nil, possibleDeltaSources |-> possibleDeltaSources,
     deltaSource |-> NoKey, meta |-> meta]

\* The names of body b's attachment map (none when it is not a map).
AttNames(b) == IF IsMap(b.atts) THEN DOMAIN b.atts.val ELSE {}
Entry(b, n) == b.atts.val[n]

\* The orders in which a range loop may visit the keys S of a map.
Orders(S) ==
    {q \in [1..Cardinality(S) -> S] : \A i, j \in 1..Cardinality(S) : i # j => q[i] # q[j]}

\* base.ToInt64(meta["revpos"]): ok only when the field holds a number.
ToInt64(meta, field) ==
    IF Has(meta, field) THEN [ok |-> TRUE, val |-> meta[field]] ELSE [ok |-> FALSE, val |-> 0]

\* findAttachments with a slip: an entry without revpos counts as revpos 0.
RECURSIVE findAttachments_MissingRevposIsZero(_, _, _, _, _)
findAttachments_MissingRevposIsZero(b, minRevpos, deltaSrcKeys, order, i) ==
    IF i > Len(order) THEN <<>>
    ELSE LET name == order[i]
             meta == Entry(b, name).val
             revpos == ToInt64(meta, "revpos")
             rest == findAttachments_MissingRevposIsZero(b, minRevpos, deltaSrcKeys,
                                                         order, i + 1)
         IN IF revpos.val >= minRevpos
            THEN <<Attachment(name, meta,
                              IF Has(deltaSrcKeys, name)
                              THEN ListVal(<<deltaSrcKeys[name]>>) ELSE Nil)>> \o rest
            ELSE rest

\* findAttachments with a slip: an entry whose revpos equals minRevpos is
\* left out.
RECURSIVE findAttachments_StrictRevpos(_, _, _, _, _)
findAttachments_StrictRevpos(b, minRevpos, deltaSrcKeys, order, i) ==
    IF i > Len(order) THEN <<>>
    ELSE LET name == order[i]
             meta == Entry(b, name).val
             revpos == ToInt64(meta, "revpos")
             rest == findAttachments_StrictRevpos(b, minRevpos, deltaSrcKeys, order, i + 1)
         IN IF revpos.ok /\ revpos.val > minRevpos
            THEN <<Attachment(name, meta,
                              IF Has(deltaSrcKeys, name)
                              THEN ListVal(<<deltaSrcKeys[name]>>) ELSE Nil)>> \o rest
            ELSE rest

\* The loop of findAttachments (attachment.go:159-174) from the i-th name
\* of the iteration order on: the attachments appended.
RECURSIVE findAttachments(_, _, _, _, _)
findAttachments(b, minRevpos, deltaSrcKeys, order, i) ==
    IF i > Len(order) THEN <<>>
    ELSE LET name == order[i]
             meta == Entry(b, name).val
             revpos == ToInt64(meta, "revpos")
             rest == findAttachments(b, minRevpos, deltaSrcKeys, order, i + 1)
         IN IF revpos.ok /\ revpos.val >= minRevpos
            THEN <<Attachment(name, meta,
                              IF Has(deltaSrcKeys, name)
                              THEN ListVal(<<deltaSrcKeys[name]>>) ELSE Nil)>> \o rest
            ELSE rest

NoArgs == [minRevpos |-> 0, deltaSrcKeys |-> EmptyMap, called |-> FALSE]
IdleFind == findBody = Body(Nil) /\ findArgs = NoArgs /\ attachments = <<>>

\* db.findAttachments(findBody, minRevpos, deltaSrcKeys); the body returned
\* is a copy with the same content.
FindAttachments(minRevpos, deltaSrcKeys, order) ==
    /\ attachments' = findAttachments(findBody, minRevpos, deltaSrcKeys, order, 1)
    /\ findArgs' = [minRevpos |-> minRevpos, deltaSrcKeys |-> deltaSrcKeys, called |-> TRUE]
    /\ UNCHANGED <<findBody, storeVars, deltaVars, handleVars>>

(***************************************************************************)
(* Strings as the regular expressions see them (attachment.go:120-134).    *)
(* A name or a content type is a TLA+ string; Chars gives its characters.  *)
(***************************************************************************)
Chars(s) ==
    CASE s = "" -> <<>>
      [] s = "a" -> <<"a">>
      [] s = "b" -> <<"b">>
      [] s = "a.txt" -> <<"a", ".", "t", "x", "t">>
      [] s = "m.mp4" -> <<"m", ".", "m", "p", "4">>
      [] s = "P.JPG" -> <<"P", ".", "J", "P", "G">>
      [] s = "zip" -> <<"z", "i", "p">>
      [] s = "b.svgz" -> <<"b", ".", "s", "v", "g", "z">>
      [] s = "c.tar.gz" -> <<"c", ".", "t", "a", "r", ".", "g", "z">>
      [] s = "text/plain" -> <<"t", "e", "x", "t", "/", "p", "l", "a", "i", "n">>
      [] s = "image/jpeg" -> <<"i", "m", "a", "g", "e", "/", "j", "p", "e", "g">>
      [] s = "image/svg+xml" -> <<"i", "m", "a", "g", "e", "/", "s", "v", "g", "+", "x", "m", "l">>
      [] s = "application/zip" -> <<"a", "p", "p", "l", "i", "c", "a", "t", "i", "o", "n", "/", "z", "i", "p">>
      [] s = "application/x-gzip" -> <<"a", "p", "p", "l", "i", "c", "a", "t", "i", "o", "n", "/", "x", "-", "g", "z", "i", "p">>
      [] s = "application/octet-stream" -> <<"a", "p", "p", "l", "i", "c", "a", "t", "i", "o", "n", "/", "o", "c", "t", "e", "t", "-", "s", "t", "r", "e", "a", "m">>
      [] s = "application/json" -> <<"a", "p", "p", "l", "i", "c", "a", "t", "i", "o", "n", "/", "j", "s", "o", "n">>
      [] s = "VIDEO/mp4" -> <<"V", "I", "D", "E", "O", "/", "m", "p", "4">>
      [] s = "text/x-zip" -> <<"t", "e", "x", "t", "/", "x", "-", "z", "i", "p">>
      [] s = "audio/unzipped" -> <<"a", "u", "d", "i", "o", "/", "u", "n", "z", "i", "p", "p", "e", "d">>
      [] s = "application/xmlish" -> <<"a", "p", "p", "l", "i", "c", "a", "t", "i", "o", "n", "/", "x", "m", "l", "i", "s", "h">>

UpperCase == <<"A", "B", "C", "D", "E", "F", "G", "H", "I", "J", "K", "L", "M",
               "N", "O", "P", "Q", "R", "S", "T", "U", "V", "W", "X", "Y", "Z">>
LowerCase == <<"a", "b", "c", "d", "e", "f", "g", "h", "i", "j", "k", "l", "m",
               "n", "o", "p", "q", "r", "s", "t", "u", "v", "w", "x", "y", "z">>
Digits == {"0", "1", "2", "3", "4", "5", "6", "7", "8", "9"}

\* (?i): matching ignores case; the patterns are written in lower case.
ToLowerMap ==
    [c \in {UpperCase[i] : i \in 1..26} |-> LowerCase[CHOOSE i \in 1..26 : UpperCase[i] = c]]
ToLower(c) == IF c \in DOMAIN ToLowerMap THEN ToLowerMap[c] ELSE c
Fold(q) == [i \in 1..Len(q) |-> ToLower(q[i])]

\* \w
WordChars ==
    {LowerCase[i] : i \in 1..26} \cup {UpperCase[i] : i \in 1..26} \cup Digits \cup {"_"}
WordChar(c) == c \in WordChars

\* \b between q[i-1] and q[i]; the text outside q is not a word character.
Boundary(q, i) ==
    (i - 1 \in 1..Len(q) /\ WordChar(q[i - 1])) # (i \in 1..Len(q) /\ WordChar(q[i]))

\* The literal w stands in q at place i.
IsAt(q, w, i) ==
    /\ i >= 1
    /\ i + Len(w) - 1 <= Len(q)
    /\ SubSeq(Fold(q), i, i + Len(w) - 1) = w

\* \bw\b somewhere in q
HasWord(q, w) == \E i \in 1..Len(q) : Boundary(q, i) /\ IsAt(q, w, i) /\ Boundary(q, i + Len(w))

\* kCompressedTypes: (?i)\bg?zip\b
kCompressedTypes(q) == HasWord(q, <<"g", "z", "i", "p">>) \/ HasWord(q, <<"z", "i", "p">>)

\* kGoodTypes: (?i)(^text)|(xml\b)|(\b(html|json|yaml)\b)
kGoodTypes(q) ==
    \/ IsAt(q, <<"t", "e", "x", "t">>, 1)
    \/ \E i \in 1..Len(q) : IsAt(q, <<"x", "m", "l">>, i) /\ Boundary(q, i + 3)
    \/ \E w \in {<<"h", "t", "m", "l">>, <<"j", "s", "o", "n">>, <<"y", "a", "m", "l">>} :
          HasWord(q, w)

\* kBadTypes: (?i)^(audio|image|video)/
kBadTypes(q) ==
    \E w \in {<<"a", "u", "d", "i", "o">>, <<"i", "m", "a", "g", "e">>,
              <<"v", "i", "d", "e", "o">>} : IsAt(q, w \o <<"/">>, 1)

\* The extensions of kBadFilenames:
\* zip|t?gz|rar|7z|jpe?g|png|gif|svgz|mp3|m4a|ogg|wav|aiff|mp4|mov|avi|theora
BadExtensions ==
    {<<"z", "i", "p">>,
     <<"g", "z">>,
     <<"t", "g", "z">>,
     <<"r", "a", "r">>,
     <<"7", "z">>,
     <<"j", "p", "g">>,
     <<"j", "p", "e", "g">>,
     <<"p", "n", "g">>,
     <<"g", "i", "f">>,
     <<"s", "v", "g", "z">>,
     <<"m", "p", "3">>,
     <<"m", "4", "a">>,
     <<"o", "g", "g">>,
     <<"w", "a", "v">>,
     <<"a", "i", "f", "f">>,
     <<"m", "p", "4">>,
     <<"m", "o", "v">>,
     <<"a", "v", "i">>,
     <<"t", "h", "e", "o", "r", "a">>}

\* kBadFilenames: (?i)\.(...)$
kBadFilenames(q) ==
    \E e \in BadExtensions : IsAt(q, <<".">> \o e, Len(q) - Len(e))

(***************************************************************************)
(* The attachment handle (attachment.go:26-148).  `a` is an Attachment     *)
(* record; a.meta is the record inside the body's _attachments map.        *)
(***************************************************************************)
\* a.meta[field].(string): the string, "" when the field is absent.
StringField(a, field) == IF Has(a.meta, field) THEN a.meta[field] ELSE ""

\* ContentType (attachment.go:38-41)
ContentType(a) == StringField(a, "content_type")

\* Key (attachment.go:44-47)
Key(a) == IF Has(a.meta, "digest") THEN a.meta.digest ELSE NoKey

\* Headers with a slip: the part of a delta gets no Content-Disposition.
Headers_NoDispositionForDelta(a, full) ==
    LET h1 == IF a.deltaSource # NoKey
              THEN Put(Put(EmptyMap, "Content-Encoding", "zdelta"),
                       "X-Delta-Source", a.deltaSource)
              ELSE IF StringField(a, "encoding") # ""
                   THEN Put(EmptyMap, "Content-Encoding", StringField(a, "encoding"))
                   ELSE EmptyMap
    IN IF full
       THEN IF ContentType(a) # "" THEN Put(h1, "Content-Type", ContentType(a)) ELSE h1
       ELSE IF a.deltaSource # NoKey THEN h1
       ELSE Put(h1, "Content-Disposition", <<"attachment; filename=", a.Name>>)

\* Headers (attachment.go:51-67): the header set, as a map.
Headers(a, full) ==
    LET h1 == IF a.deltaSource # NoKey
              THEN Put(Put(EmptyMap, "Content-Encoding", "zdelta"),
                       "X-Delta-Source", a.deltaSource)
              ELSE IF StringField(a, "encoding") # ""
                   THEN Put(EmptyMap, "Content-Encoding", StringField(a, "encoding"))
                   ELSE EmptyMap
    IN IF full
       THEN IF ContentType(a) # "" THEN Put(h1, "Content-Type", ContentType(a)) ELSE h1
       ELSE Put(h1, "Content-Disposition", <<"attachment; filename=", a.Name>>)

\* Data with a slip: only the record is looked at.
Data_IgnoresFollowingData(a) ==
    IF Has(a.meta, "data") /\ a.meta.data.type = "bytes" THEN a.meta.data ELSE Nil

\* Data (attachment.go:70-76)
Data(a) ==
    IF a.followingData.type # "nil" THEN a.followingData
    ELSE IF Has(a.meta, "data") /\ a.meta.data.type = "bytes" THEN a.meta.data
    ELSE Nil

\* Follows (attachment.go:105-107)
Follows(a) == Has(a.meta, "follows") /\ a.meta.follows = TRUE

\* Compressible (attachment.go:137-148).  The first test is the type
\* assertion a.meta["encoding"].(string): it succeeds for every string,
\* the empty one included.
Compressible(a) ==
    IF Has(a.meta, "encoding") \/ a.deltaSource # NoKey THEN FALSE
    ELSE IF kBadFilenames(Chars(a.Name)) THEN FALSE
    ELSE IF ContentType(a) # ""
         THEN /\ ~kCompressedTypes(Chars(ContentType(a)))
              /\ (kGoodTypes(Chars(ContentType(a))) \/ ~kBadTypes(Chars(ContentType(a))))
    ELSE TRUE

\* What LoadData returns, with the handle afterwards and the call it made
\* to GetAttachmentMaybeAsDelta, if any: the sourceKeys passed and its Ret.
Loaded(a, data, e, called, sourceKeys, ret) ==
    [att |-> a, data |-> data, err |-> e, called |-> called,
     sourceKeys |-> sourceKeys, ret |-> ret]
NoRet == Ret(Nil, NoKey, "nil", <<>>, <<>>, <<>>)

\* LoadData with a slip: the candidates are passed on whatever Compressible
\* says.
LoadData_IgnoresCompressible(a, deltaOK, c, b, codec) ==
    LET data == Data(a)
        sourceKeys == IF deltaOK /\ a.possibleDeltaSources.type # "nil"
                      THEN a.possibleDeltaSources.val ELSE <<>>
        r == GetAttachmentMaybeAsDelta(c, b, Key(a), sourceKeys, codec)
    IN IF data.type # "nil" THEN Loaded(a, data, "nil", FALSE, <<>>, NoRet)
       ELSE IF r.err # "nil" THEN Loaded(a, r.result, r.err, TRUE, sourceKeys, r)
       ELSE LET m1 == Put(a.meta, "data", r.result)
                m2 == IF r.sourceKey # NoKey THEN Put(m1, "zdeltasrc", r.sourceKey) ELSE m1
            IN Loaded([a EXCEPT !.meta = Del(m2, "stub"),
                                !.possibleDeltaSources = Nil,
                                !.deltaSource = r.sourceKey],
                      r.result, "nil", TRUE, sourceKeys, r)

\* LoadData (attachment.go:80-102) on the cache c and the bucket b.
LoadData(a, deltaOK, c, b, codec) ==
    LET data == Data(a)
        sourceKeys == IF deltaOK /\ a.possibleDeltaSources.type # "nil" /\ Compressible(a)
                      THEN a.possibleDeltaSources.val ELSE <<>>
        r == GetAttachmentMaybeAsDelta(c, b, Key(a), sourceKeys, codec)
    IN IF data.type # "nil" THEN Loaded(a, data, "nil", FALSE, <<>>, NoRet)
       ELSE IF r.err # "nil" THEN Loaded(a, r.result, r.err, TRUE, sourceKeys, r)
       ELSE LET m1 == Put(a.meta, "data", r.result)
                m2 == IF r.sourceKey # NoKey THEN Put(m1, "zdeltasrc", r.sourceKey) ELSE m1
            IN Loaded([a EXCEPT !.meta = Del(m2, "stub"),
                                !.possibleDeltaSources = Nil,
                                !.deltaSource = r.sourceKey],
                      r.result, "nil", TRUE, sourceKeys, r)

\* SetFollows with a slip: the delta source of the handle is forgotten
\* along with zdeltasrc.
SetFollows_ForgetsDeltaSource(a) ==
    IF Has(a.meta, "data")
    THEN LET d == decodeData(a.meta.data)
         IN [a EXCEPT !.followingData = IF d.err = "nil" THEN BytesData(d.val) ELSE Nil,
                      !.deltaSource = NoKey,
                      !.meta = Put(Del(Del(a.meta, "data"), "zdeltasrc"), "follows", TRUE)]
    ELSE a

\* SetFollows (attachment.go:110-118)
SetFollows(a) ==
    IF Has(a.meta, "data")
    THEN LET d == decodeData(a.meta.data)
         IN [a EXCEPT !.followingData = IF d.err = "nil" THEN BytesData(d.val) ELSE Nil,
                      !.meta = Put(Del(Del(a.meta, "data"), "zdeltasrc"), "follows", TRUE)]
    ELSE a

\* The last operation on a handle: which one, on which handle of
\* `attachments`, its boolean argument, and what it returned.
Op(op, i, arg, loaded, headers, compressible) ==
    [op |-> op, i |-> i, arg |-> arg, data |-> loaded.data, err |-> loaded.err,
     called |-> loaded.called, sourceKeys |-> loaded.sourceKeys, ret |-> loaded.ret,
     headers |-> headers, compressible |-> compressible]
NoLoaded == Loaded(Nil, Nil, "nil", FALSE, <<>>, NoRet)
NoOp == Op("none", 0, FALSE, NoLoaded, EmptyMap, FALSE)
IdleHandle == lastOp = NoOp

\* attachments[i].LoadData(deltaOK).  The codec stores what it computed in
\* the cache when `stores`.
LoadDataCall(i, deltaOK, codec, stores) ==
    LET a == attachments[i]
        r == LoadData(a, deltaOK, cache, bucket, codec)
    IN /\ attachments' = [attachments EXCEPT ![i] = r.att]
       /\ lastOp' = Op("LoadData", i, deltaOK, r, EmptyMap, FALSE)
       /\ lastCall' = IF r.called
                      THEN [key |-> Key(a), sourceKeys |-> r.sourceKeys, ret |-> r.ret,
                            answers |-> Answers(r.ret.invoked, codec)]
                      ELSE lastCall
       /\ cache' = IF r.called /\ stores
                   THEN cacheAfter(cache, Key(a), r.ret.invoked, codec, bucket)
                   ELSE cache
       /\ UNCHANGED <<storeVars, findBody, findArgs>>

\* attachments[i].SetFollows()
SetFollowsCall(i) ==
    /\ attachments' = [attachments EXCEPT ![i] = SetFollows(attachments[i])]
    /\ lastOp' = Op("SetFollows", i, FALSE, NoLoaded, EmptyMap, FALSE)
    /\ UNCHANGED <<storeVars, deltaVars, findBody, findArgs>>

\* attachments[i].Headers(full)
HeadersCall(i, full) ==
    /\ lastOp' = Op("Headers", i, full, NoLoaded, Headers(attachments[i], full), FALSE)
    /\ UNCHANGED <<storeVars, deltaVars, findVars>>

\* attachments[i].Compressible()
CompressibleCall(i) ==
    /\ lastOp' = Op("Compressible", i, FALSE, NoLoaded, EmptyMap,
                    Compressible(attachments[i]))
    /\ UNCHANGED <<storeVars, deltaVars, findVars>>

(***************************************************************************)
(* Specifications.                                                         *)
(***************************************************************************)
vars == <<storeVars, deltaVars, findVars, handleVars>>

\* Ingestion starts on an empty store, with no reader at work.
InitIngest == InitStore /\ IdleDelta /\ IdleFind /\ IdleHandle

\* One request at a time.
NextStore ==
    \/ \E b \in Bodies : StoreAttachmentsBegin(1, b)
    \/ \E name \in Names, available \in BOOLEAN, addFails \in BOOLEAN :
          StoreAttachmentsEntry(1, name, available, addFails)
    \/ Save(1)

SpecStore == InitIngest /\ [][NextStore]_vars

\* Concurrent requests, each storing a well-formed body; their calls
\* interleave at every loop iteration (one bucket operation each).
ConcEntries ==
    {MapVal(m) : m \in {[data |-> BytesData(b), content_type |-> "text/plain"] : b \in Blobs}
                     \cup {[data |-> StringData(Base64Encode(<<1>>)),
                             encoding |-> "gzip", length |-> 9],
                            [stub |-> TRUE, revpos |-> 1, digest |-> SHA1DigestKey(<<1>>)]}}
ConcBodies ==
    {Body(MapVal(f)) : f \in UNION {[S -> ConcEntries] : S \in SUBSET Names}}

NextConc ==
    \/ \E p \in Procs, b \in ConcBodies : StoreAttachmentsBegin(p, b)
    \/ \E p \in Procs, name \in Names, addFails \in BOOLEAN :
          StoreAttachmentsEntry(p, name, TRUE, addFails)
    \/ \E p \in Procs : Discard(p)

SpecConc == InitIngest /\ [][NextConc]_vars

\* Resolution requests against a bucket that holds any of the blobs and a
\* delta cache in any state.
InitDelta ==
    /\ InitIdleStore
    /\ bucket \in {AddressedBucket(S) : S \in SUBSET (Blobs \cup {TargetBlob})}
    /\ cache \in UNION {[D -> {<<>>} \cup {ZDelta(x, TargetBlob) : x \in Blobs}] :
                          D \in SUBSET {<<sk, TargetKey>> : sk \in SourceKeys}}
    /\ \A pr \in DOMAIN cache :
          cache[pr] = <<>> \/ \E x \in Blobs :
             pr[1] = SHA1DigestKey(x) /\ cache[pr] = ZDelta(x, TargetBlob)
    /\ lastCall = NoCall
    /\ IdleFind
    /\ IdleHandle

NextDelta ==
    \E sourceKeys \in CandidateLists, codec \in [SourceKeys -> {"delta", "empty", "nil"}],
       stores \in BOOLEAN :
        Resolve(sourceKeys, codec, stores)

SpecDelta == InitDelta /\ [][NextDelta]_vars

\* A reader discovers the attachments of a stored revision body.
FindEntries ==
    {MapVal([stub |-> TRUE, digest |-> SHA1DigestKey(<<1>>), revpos |-> r, length |-> 1]) :
        r \in 1..MaxRevpos}
    \cup {MapVal([stub |-> TRUE, digest |-> SHA1DigestKey(<<1>>), length |-> 1])}
FindBodies ==
    {Body(Nil)}
    \cup {Body(MapVal(f)) : f \in UNION {[S -> FindEntries] : S \in SUBSET Names}}
DeltaSrcKeyMaps == UNION {[S -> SourceKeys] : S \in SUBSET Names}

InitFind ==
    /\ InitStore
    /\ IdleDelta
    /\ findBody \in FindBodies
    /\ findArgs = NoArgs
    /\ attachments = <<>>
    /\ IdleHandle

NextFind ==
    \E minRevpos \in 0..(MaxRevpos + 1), deltaSrcKeys \in DeltaSrcKeyMaps,
       order \in Orders(AttNames(findBody)) :
        FindAttachments(minRevpos, deltaSrcKeys, order)

SpecFind == InitFind /\ [][NextFind]_vars

\* A reader works on the handle of a stored attachment: the record is the
\* one storeAttachments wrote for the target blob sent inline under `name`
\* with content type ct and encoding enc (Absent: the field was not sent),
\* and findAttachments has returned its handle.
Absent == "(absent)"
InlineMeta(ct, enc) ==
    LET m0 == [data |-> BytesData(TargetBlob)]
        m1 == IF ct = Absent THEN m0 ELSE Put(m0, "content_type", ct)
    IN IF enc = Absent THEN m1 ELSE Put(m1, "encoding", enc)
StoredRecord(ct, enc) == newMeta(InlineMeta(ct, enc), TargetKey, 1, TargetBlob)

Found(name, ct, enc, deltaSrcKeys) ==
    /\ findBody = Body(MapVal([n \in {name} |-> MapVal(StoredRecord(ct, enc))]))
    /\ findArgs = [minRevpos |-> 1, deltaSrcKeys |-> deltaSrcKeys, called |-> TRUE]
    /\ attachments = findAttachments(findBody, 1, deltaSrcKeys, <<name>>, 1)

\* The states of the delta cache: any of the candidates has no entry, the
\* empty entry, or its delta.
DeltaCaches ==
    {c \in UNION {[D -> {<<>>} \cup {ZDelta(x, TargetBlob) : x \in Blobs}] :
                     D \in SUBSET {<<sk, TargetKey>> : sk \in SourceKeys}} :
        \A pr \in DOMAIN c :
            c[pr] = <<>> \/ \E x \in Blobs :
                pr[1] = SHA1DigestKey(x) /\ c[pr] = ZDelta(x, TargetBlob)}

\* Loading: one compressible attachment and one of each kind that is not,
\* over every state of the bucket and the cache.
LoadCases ==
    {<<"a.txt", "text/plain", Absent>>, <<"a.txt", "text/plain", "gzip">>,
     <<"m.mp4", Absent, Absent>>, <<"a", "image/jpeg", Absent>>}

InitLoad ==
    /\ InitIdleStore
    /\ bucket \in {AddressedBucket(S) : S \in SUBSET (Blobs \cup {TargetBlob})}
    /\ cache \in DeltaCaches
    /\ lastCall = NoCall
    /\ IdleHandle
    /\ \E case \in LoadCases :
        \E deltaSrcKeys \in {EmptyMap} \cup {[n \in {case[1]} |-> sk] : sk \in SourceKeys} :
            Found(case[1], case[2], case[3], deltaSrcKeys)

\* A handle has at most one candidate: what the codec answers for it.
NextLoad ==
    \/ \E i \in 1..Len(attachments), deltaOK \in BOOLEAN,
          answer \in {"delta", "empty", "nil"}, stores \in BOOLEAN :
            LoadDataCall(i, deltaOK, [sk \in SourceKeys |-> answer], stores)
    \/ \E i \in 1..Len(attachments) : SetFollowsCall(i)
    \/ \E i \in 1..Len(attachments), full \in BOOLEAN : HeadersCall(i, full)
    \/ \E i \in 1..Len(attachments) : CompressibleCall(i)

SpecLoad == InitLoad /\ [][NextLoad]_vars

\* Classifying: every name, content type and encoding, over a bucket that
\* holds the target and one earlier version, and a codec that finds a delta.
HandleNames == {"a", "a.txt", "m.mp4", "P.JPG", "zip", "b.svgz", "c.tar.gz"}
ContentTypes ==
    {Absent, "", "text/plain", "image/jpeg", "image/svg+xml", "application/zip",
     "application/x-gzip", "application/octet-stream", "application/json",
     "VIDEO/mp4", "text/x-zip", "audio/unzipped", "application/xmlish"}
Encodings == {Absent, "", "gzip"}

InitClassify ==
    /\ InitIdleStore
    /\ bucket = AddressedBucket({TargetBlob, <<1>>})
    /\ cache = EmptyMap
    /\ lastCall = NoCall
    /\ IdleHandle
    /\ \E name \in HandleNames, ct \in ContentTypes, enc \in Encodings :
        \E deltaSrcKeys \in {EmptyMap, [n \in {name} |-> SHA1DigestKey(<<1>>)]} :
            Found(name, ct, enc, deltaSrcKeys)

NextClassify ==
    \/ \E i \in 1..Len(attachments), deltaOK \in BOOLEAN :
          LoadDataCall(i, deltaOK, [sk \in SourceKeys |-> "delta"], FALSE)
    \/ \E i \in 1..Len(attachments) : SetFollowsCall(i)
    \/ \E i \in 1..Len(attachments), full \in BOOLEAN : HeadersCall(i, full)
    \/ \E i \in 1..Len(attachments) : CompressibleCall(i)

SpecClassify == InitClassify /\ [][NextClassify]_vars

\* Ingestion and reading together: revisions are stored one after the
\* other while a reader takes the body of the current revision, discovers
\* its attachments and loads them in full.  The digests clients send in
\* stubs are those of a blob that is never sent inline (the target blob of
\* the delta model), so that a record with the digest of one of Blobs is a
\* record made from inline data.  The reader's steps are taken between the
\* calls of storeAttachments: a call in progress only adds blobs.
RoundEntries ==
    {MapVal(m) : m \in {[data |-> BytesData(b), content_type |-> "text/plain"] : b \in Blobs}
                     \cup {[data |-> StringData(Base64Encode(<<1>>))],
                            [stub |-> TRUE, revpos |-> 1],
                            [stub |-> TRUE, revpos |-> 1, digest |-> TargetKey]}}
RoundBodies ==
    {Body(MapVal(f)) : f \in UNION {[S -> RoundEntries] : S \in SUBSET Names}}

\* The reader obtains the body of the current revision.
GetRev ==
    /\ curGen > 0
    /\ findBody # curBody.val
    /\ findBody' = curBody.val
    /\ findArgs' = NoArgs
    /\ attachments' = <<>>
    /\ lastOp' = NoOp
    /\ UNCHANGED <<storeVars, deltaVars>>

NextRound ==
    \/ \E b \in RoundBodies : StoreAttachmentsBegin(1, b)
    \/ \E name \in Names : StoreAttachmentsEntry(1, name, TRUE, FALSE)
    \/ Save(1)
    \/ pc[1] = "idle" /\ GetRev
    \/ /\ pc[1] = "idle"
       /\ \E minRevpos \in 1..MaxGen, order \in Orders(AttNames(findBody)) :
            FindAttachments(minRevpos, [n \in Names |-> SHA1DigestKey(<<1>>)], order)
    \/ /\ pc[1] = "idle"
       /\ \E i \in 1..Len(attachments) :
            LoadDataCall(i, FALSE, [sk \in SourceKeys |-> "delta"], FALSE)

SpecRound == InitIngest /\ [][NextRound]_vars

(***************************************************************************)
(* Vocabulary of the properties.                                           *)
(***************************************************************************)
\* Request p's call is in progress or has returned and not yet been consumed.
InCall(p) == pc[p] \in {"range", "done"}
Returned(p) == pc[p] = "done"
Succeeded(p) == pc[p] = "done" /\ err[p] = "nil"

\* The step taken is the loop iteration of request p over entry n.
Visits(p, n) == pc[p] = "range" /\ n \in todo[p] /\ n \notin todo'[p]

\* Entry v is a stub as the stub case requires it: a map without data, with
\* stub = true and revpos >= 1.
IsStubEntry(v) ==
    /\ IsMap(v)
    /\ ~Has(v.val, "data")
    /\ Has(v.val, "stub") /\ v.val.stub = TRUE
    /\ Has(v.val, "revpos") /\ v.val.revpos >= 1

\* Entry v carries inline data holding the bytes b, raw or base64-encoded.
IsInlineOf(v, b) ==
    /\ IsMap(v)
    /\ Has(v.val, "data")
    /\ v.val.data \in {BytesData(b), StringData(Base64Encode(b))}

\* The parent revision of request p's call has an attachment named n.
ParentHas(p, n) ==
    /\ parentDoc[p].type = "body"
    /\ n \in AttNames(parentDoc[p].val)
ParentEntry(p, n) == Entry(parentDoc[p].val, n)

(***************************************************************************)
(* C3.  When the loop visits a stub entry (no data, stub = true,           *)
(* revpos >= 1) and the parent revision, as the revision tree returned it  *)
(* to this call, has an attachment of the same name, the iteration         *)
(* succeeds, the entry becomes the parent's record verbatim (the parent's  *)
(* digest and revpos, whatever revpos the client sent), and the iteration  *)
(* makes no AddRaw call and leaves the bucket as it was.                   *)
(***************************************************************************)
C3_StubCopiesParent ==
    [][\A p \in Procs, n \in Names :
         (/\ Visits(p, n)
          /\ IsStubEntry(Entry(body[p], n))
          /\ ParentHas(p, n)
          /\ parentAttachments'[p].type = "map")
         => /\ err'[p] = "nil"
            /\ Entry(body'[p], n) = ParentEntry(p, n)
            /\ writes'[p] = writes[p]
            /\ bucket' = bucket]_vars

\* A stub whose revpos differs from the parent's has been replaced by the
\* parent's record, without a write.
C3_Witness ==
    \E p \in Procs, n \in Names :
        /\ InCall(p) /\ err[p] = "nil"
        /\ n \in AttNames(orig[p]) \ todo[p]
        /\ IsStubEntry(Entry(orig[p], n))
        /\ ParentHas(p, n)
        /\ Entry(body[p], n) = ParentEntry(p, n)
        /\ ParentEntry(p, n).val.revpos # Entry(orig[p], n).val.revpos
        /\ Has(ParentEntry(p, n).val, "digest")
        /\ ~Has(Entry(orig[p], n).val, "digest")
        /\ writes[p] = 0

(***************************************************************************)
(* C5.  As claimed: a malformed attachment map (a non-map _attachments, or *)
(* some entry that is not a map) makes the call return a 400 having made   *)
(* no AddRaw call and replaced no entry.                                   *)
(***************************************************************************)
NonMapAtts(b) == b.atts.type = "string"
HasNonMapEntry(b) == \E n \in AttNames(b) : ~IsMap(Entry(b, n))
\* The entries of orig[p] the loop has visited.
Visited(p) == AttNames(orig[p]) \ todo[p]
\* ... those with inline data that decodes: each costs one AddRaw call.
InlineVisited(p) ==
    {n \in Visited(p) : \E b \in Blobs : IsInlineOf(Entry(orig[p], n), b)}

C5_MalformedRejectedUntouched ==
    \A p \in Procs :
        (Returned(p) /\ (NonMapAtts(orig[p]) \/ HasNonMapEntry(orig[p])))
        => /\ err[p] = "400"
           /\ writes[p] = 0
           /\ body[p] = orig[p]

(***************************************************************************)
(* C5 amended.  A non-map _attachments is rejected with a 400 before the   *)
(* loop starts: no AddRaw call, no entry replaced.  An entry that is not a *)
(* map is detected only when the range loop reaches it: the call always    *)
(* fails (with a 400 when that entry is the one that fails), the entry is  *)
(* left as it was, but inline entries visited earlier have been written    *)
(* and replaced already, one AddRaw call each.                             *)
(***************************************************************************)
C5_MalformedRejected ==
    \A p \in Procs :
        /\ (InCall(p) /\ NonMapAtts(orig[p]))
           => /\ Returned(p) /\ err[p] = "400"
              /\ writes[p] = 0 /\ body[p] = orig[p]
        /\ (Returned(p) /\ HasNonMapEntry(orig[p]))
           => /\ err[p] # "nil"
              /\ failed[p] \in Visited(p)
              /\ ~IsMap(Entry(orig[p], failed[p])) => err[p] = "400"
              /\ \A n \in AttNames(orig[p]) :
                    ~IsMap(Entry(orig[p], n)) => Entry(body[p], n) = Entry(orig[p], n)
              /\ writes[p] = Cardinality(InlineVisited(p))

\* The call failed at an entry that is not a map after it had written and
\* replaced an inline entry.
C5_Witness ==
    \E p \in Procs :
        /\ Returned(p) /\ err[p] = "400"
        /\ HasNonMapEntry(orig[p])
        /\ ~IsMap(Entry(orig[p], failed[p]))
        /\ writes[p] = 1
        /\ body[p] # orig[p]
        /\ bucket # EmptyMap

(***************************************************************************)
(* C6.  Every inline entry the loop has visited, holding the bytes b raw   *)
(* or base64-encoded: unless the bucket failed (the call then returns the  *)
(* bucket's error at that entry), the bucket holds b at the address of     *)
(* SHA1DigestKey(b), and the entry is the normalized record: stub = true,  *)
(* digest = SHA1DigestKey(b), revpos = generation, content_type as sent if *)
(* sent, no data.  Hence equal bytes get equal digests, under any names    *)
(* and in any calls, and a write to a key already present is no error.     *)
(***************************************************************************)
C6_InlineNormalized ==
    \A p \in Procs : \A n \in Visited(p) : \A b \in Blobs :
        (InCall(p) /\ IsInlineOf(Entry(orig[p], n), b))
        => IF n = failed[p]
           THEN infra[p] /\ err[p] = "500" /\ Entry(body[p], n) = Entry(orig[p], n)
           ELSE LET old == Entry(orig[p], n).val
                    new == Entry(body[p], n)
                IN /\ GetRaw(bucket, attachmentKeyToDocKey(SHA1DigestKey(b))) =
                          [err |-> "nil", val |-> b]
                   /\ IsMap(new)
                   /\ Has(new.val, "stub") /\ new.val.stub = TRUE
                   /\ Has(new.val, "digest") /\ new.val.digest = SHA1DigestKey(b)
                   /\ Has(new.val, "revpos") /\ new.val.revpos = generation[p]
                   /\ ~Has(new.val, "data")
                   /\ Has(new.val, "content_type") <=> Has(old, "content_type")
                   /\ Has(old, "content_type") => new.val.content_type = old.content_type

\* A call has succeeded on two inline entries with the same bytes, one raw
\* and one base64-encoded, after an earlier revision stored the same bytes:
\* both got the digest the earlier revision got.
C6_Witness ==
    \E p \in Procs :
        /\ Succeeded(p)
        /\ AttNames(orig[p]) = Names
        /\ \E n, m \in Names :
              /\ n # m
              /\ IsInlineOf(Entry(orig[p], n), <<1>>)
              /\ IsInlineOf(Entry(orig[p], m), <<1>>)
              /\ Entry(orig[p], n).val.data = BytesData(<<1>>)
              /\ Entry(orig[p], m).val.data = StringData(Base64Encode(<<1>>))
              /\ Entry(body[p], n).val.digest = Entry(body[p], m).val.digest
              /\ ParentHas(p, n)
              /\ ParentEntry(p, n).val.digest = Entry(body[p], n).val.digest
              /\ ParentEntry(p, n).val.revpos < Entry(body[p], n).val.revpos
        /\ writes[p] = 2

(***************************************************************************)
(* C7.  As claimed: when the loop visits a stub entry (no data,            *)
(* stub = true, revpos >= 1) that carries no digest, and no parent         *)
(* attachment of the same name is found (the parent revision is            *)
(* unavailable, has no attachment map, or its map lacks the name), the     *)
(* call fails with a 400.                                                  *)
(***************************************************************************)
C7_StubWithoutDigestRejected ==
    [][\A p \in Procs, n \in Names :
         (/\ Visits(p, n)
          /\ IsStubEntry(Entry(body[p], n))
          /\ ~Has(Entry(body[p], n).val, "digest")
          /\ (parentAttachments'[p].type = "nil" \/ ~ParentHas(p, n)))
         => err'[p] = "400"]_vars

(***************************************************************************)
(* C8.  As claimed: after a call that returns no error, every entry of the *)
(* body's attachment map is a record with stub = true and a digest, and    *)
(* the bucket holds a blob at the address of that digest.                  *)
(***************************************************************************)
C8_SuccessMeansResolvableStubs ==
    \A p \in Procs :
        Succeeded(p)
        => \A n \in AttNames(body[p]) :
              LET e == Entry(body[p], n)
              IN /\ IsMap(e)
                 /\ Has(e.val, "stub") /\ e.val.stub = TRUE
                 /\ Has(e.val, "digest")
                 /\ attachmentKeyToDocKey(e.val.digest) \in DOMAIN bucket

(***************************************************************************)
(* C9.  As claimed: when a call succeeds on the child of a revision, every *)
(* attachment name that both revisions have has a revpos in the child that *)
(* is not lower than its revpos in the parent.                             *)
(***************************************************************************)
C9_RevposNonDecreasing ==
    \A p \in Procs :
        (Succeeded(p) /\ parentDoc[p].type = "body")
        => \A n \in AttNames(body[p]) \cap AttNames(parentDoc[p].val) :
              Entry(body[p], n).val.revpos >= ParentEntry(p, n).val.revpos

(***************************************************************************)
(* C10.  Under every interleaving of the calls of concurrent requests: a   *)
(* call on a well-formed body returns no error unless the bucket itself    *)
(* failed; inline entries with the same bytes get the same digest in both  *)
(* calls, and the bucket holds those bytes at the digest's address; the    *)
(* bytes held at the address of key k always have content key k; and no    *)
(* step changes or removes an entry of the bucket once written.            *)
(***************************************************************************)
C10_ContentAddressed ==
    /\ \A k \in DOMAIN bucket :
          k = attachmentKeyToDocKey(SHA1DigestKey(bucket[k]))
    /\ \A p \in Procs :
          (Returned(p) /\ orig[p] \in ConcBodies)
          => (err[p] = "nil" \/ (infra[p] /\ err[p] = "500"))
    /\ \A p, q \in Procs : \A n \in Visited(p) \ {failed[p]} :
          \A m \in Visited(q) \ {failed[q]} : \A b \in Blobs :
             (IsInlineOf(Entry(orig[p], n), b) /\ IsInlineOf(Entry(orig[q], m), b))
             => /\ Entry(body[p], n).val.digest = Entry(body[q], m).val.digest
                /\ GetRaw(bucket, attachmentKeyToDocKey(Entry(body[p], n).val.digest))
                      = [err |-> "nil", val |-> b]

C10_WriteOnce ==
    \A k \in DOMAIN bucket : k \in DOMAIN bucket' /\ bucket'[k] = bucket[k]

C10_ConcurrentIngestSafe == []C10_ContentAddressed /\ [][C10_WriteOnce]_vars

\* Two requests are in the middle of their calls at once, each has written
\* an inline entry with the same bytes (the second write found the key
\* present) and got the same digest, while the bucket holds another blob too.
C10_Witness ==
    /\ pc[1] = "range" /\ pc[2] = "range"
    /\ writes[1] = 1 /\ writes[2] = 1
    /\ \E n \in Visited(1), m \in Visited(2) :
          /\ IsInlineOf(Entry(orig[1], n), <<1>>)
          /\ IsInlineOf(Entry(orig[2], m), <<1>>)
          /\ Entry(body[1], n).val.digest = Entry(body[2], m).val.digest
    /\ Cardinality(DOMAIN bucket) = 2

(***************************************************************************)
(* Claims about GetAttachmentMaybeAsDelta, under SpecDelta.  Every step of *)
(* SpecDelta is one call: `cache` and `bucket` are the cache and the store *)
(* the call starts from, lastCall' is the call with what it returned.      *)
(***************************************************************************)
Cached(c, key, sourceKey) == <<sourceKey, key>> \in DOMAIN c

\* The place in sourceKeys of the first candidate with a cache entry for
\* key, 0 when no candidate has one.
FirstCached(c, key, sourceKeys) ==
    IF \E i \in 1..Len(sourceKeys) : Cached(c, key, sourceKeys[i])
    THEN CHOOSE i \in 1..Len(sourceKeys) :
            /\ Cached(c, key, sourceKeys[i])
            /\ \A j \in 1..(i - 1) : ~Cached(c, key, sourceKeys[j])
    ELSE 0

\* C1: when the first candidate, in list order, with a cache entry for the
\* target has the empty (negative) entry, the call fetches the full target
\* and returns what that fetch returns (the target's bytes whenever the
\* store holds them) with the empty source; it invokes the codec for no
\* candidate, queries no cache entry after that candidate's, fetches no
\* candidate blob and leaves the cache as it was, also when a later
\* candidate has a non-empty cached delta.
C1_NegativeEntryAbandonsDelta ==
    [][LET call == lastCall'
           i == FirstCached(cache, call.key, call.sourceKeys)
           target == GetRaw(bucket, attachmentKeyToDocKey(call.key))
       IN (i > 0 /\ cache[<<call.sourceKeys[i], call.key>>] = <<>>)
          => /\ call.ret.sourceKey = NoKey
             /\ call.ret.invoked = <<>>
             /\ call.ret.queried = SubSeq(call.sourceKeys, 1, i)
             /\ call.ret.fetched = <<attachmentKeyToDocKey(call.key)>>
             /\ call.ret.err = target.err
             /\ target.err = "nil" => call.ret.result = BytesData(target.val)
             /\ target.err # "nil" => call.ret.result = Nil
             /\ cache' = cache]_vars

\* A call with two candidates has returned the full target with the empty
\* source after the first candidate's negative entry, while the cache holds
\* a non-empty delta for the second candidate.
C1_Witness ==
    /\ Len(lastCall.sourceKeys) = 2
    /\ Cached(cache, lastCall.key, lastCall.sourceKeys[1])
    /\ cache[<<lastCall.sourceKeys[1], lastCall.key>>] = <<>>
    /\ Cached(cache, lastCall.key, lastCall.sourceKeys[2])
    /\ cache[<<lastCall.sourceKeys[2], lastCall.key>>] # <<>>
    /\ lastCall.ret.queried = <<lastCall.sourceKeys[1]>>
    /\ lastCall.ret.invoked = <<>>
    /\ lastCall.ret.sourceKey = NoKey
    /\ lastCall.ret.err = "nil"
    /\ lastCall.ret.result = BytesData(TargetBlob)

\* C2: when the first candidate, in list order, with a cache entry for the
\* target has a non-empty payload, the call returns that payload with that
\* candidate as source and no error, and during the call nothing is fetched
\* from the content store (neither the target nor a candidate) and the
\* codec is not invoked.
C2_CachedDeltaReturnedWithoutFetch ==
    [][LET call == lastCall'
           i == FirstCached(cache, call.key, call.sourceKeys)
       IN (i > 0 /\ cache[<<call.sourceKeys[i], call.key>>] # <<>>)
          => /\ call.ret.result = BytesData(cache[<<call.sourceKeys[i], call.key>>])
             /\ call.ret.sourceKey = call.sourceKeys[i]
             /\ call.ret.err = "nil"
             /\ call.ret.fetched = <<>>
             /\ call.ret.invoked = <<>>
             /\ call.ret.queried = SubSeq(call.sourceKeys, 1, i)
             /\ cache' = cache]_vars

\* A call has returned the cached delta of its second candidate, the first
\* having no cache entry, from a store that does not even hold the target.
C2_Witness ==
    /\ Len(lastCall.sourceKeys) = 2
    /\ ~Cached(cache, lastCall.key, lastCall.sourceKeys[1])
    /\ Cached(cache, lastCall.key, lastCall.sourceKeys[2])
    /\ cache[<<lastCall.sourceKeys[2], lastCall.key>>] # <<>>
    /\ lastCall.ret.result = BytesData(cache[<<lastCall.sourceKeys[2], lastCall.key>>])
    /\ lastCall.ret.sourceKey = lastCall.sourceKeys[2]
    /\ lastCall.ret.err = "nil"
    /\ lastCall.ret.fetched = <<>>
    /\ lastCall.ret.invoked = <<>>
    /\ attachmentKeyToDocKey(lastCall.key) \notin DOMAIN bucket

(***************************************************************************)
(* Claims about findAttachments, under SpecFind.                           *)
(***************************************************************************)
\* The entries of findBody that the last call had to return.
Wanted ==
    {n \in AttNames(findBody) :
        /\ Has(Entry(findBody, n).val, "revpos")
        /\ Entry(findBody, n).val.revpos >= findArgs.minRevpos}
HandlesOf(n) == {i \in 1..Len(attachments) : attachments[i].Name = n}

IsOp(op) == lastOp' # lastOp /\ lastOp'.op = op
\* The step is a LoadData on a handle without resolved data.
Loads == lastOp'.op = "LoadData" /\ lastOp'.called
\* The handle the step works on, before and after.
Before == attachments[lastOp'.i]
After == attachments'[lastOp'.i]

\* The full blob of handle a in bucket b, as GetAttachment returns it.
FullBlob(a, b) == GetAttachment(b, Key(a))

\* C11: when LoadData(deltaOK) runs on a handle with no resolved data, it
\* passes candidates to GetAttachmentMaybeAsDelta only if deltaOK is true,
\* the handle has candidates and Compressible() is true (and then passes
\* the handle's list); in every other case no cache entry is queried and
\* the codec is not invoked, the bytes returned are what the fetch of the
\* full target returns, and afterwards the handle has no delta source and
\* the record no zdeltasrc.
C11_DeltaOnlyWhenAllowed ==
    [][Loads =>
        LET allowed == /\ lastOp'.arg
                       /\ Before.possibleDeltaSources.type # "nil"
                       /\ Compressible(Before)
        IN /\ allowed => lastOp'.sourceKeys = Before.possibleDeltaSources.val
           /\ ~allowed =>
                /\ lastOp'.sourceKeys = <<>>
                /\ lastOp'.ret.queried = <<>>
                /\ lastOp'.ret.invoked = <<>>
                /\ cache' = cache
                /\ lastOp'.data = FullBlob(Before, bucket).val
                /\ lastOp'.err = FullBlob(Before, bucket).err
                /\ After.deltaSource = NoKey
                /\ ~Has(After.meta, "zdeltasrc")]_vars

\* LoadData(true) on a handle with a candidate whose delta is in the cache
\* has returned the full target, because the attachment is not
\* compressible.
C11_Witness ==
    /\ lastOp.op = "LoadData"
    /\ lastOp.called
    /\ lastOp.arg
    /\ lastOp.err = "nil"
    /\ Has(findArgs.deltaSrcKeys, attachments[lastOp.i].Name)
    /\ Cached(cache, Key(attachments[lastOp.i]),
              findArgs.deltaSrcKeys[attachments[lastOp.i].Name])
    /\ cache[<<findArgs.deltaSrcKeys[attachments[lastOp.i].Name],
               Key(attachments[lastOp.i])>>] # <<>>
    /\ ~Compressible(attachments[lastOp.i])
    /\ lastOp.sourceKeys = <<>>
    /\ lastOp.data = BytesData(TargetBlob)
    /\ attachments[lastOp.i].deltaSource = NoKey

\* C12: a LoadData that succeeds on a handle with no resolved data leaves
\* the returned bytes in the record under data, removes stub, clears the
\* candidate list, makes the chosen source the handle's delta source and
\* sets zdeltasrc iff that source is not empty.  From then on the bytes of
\* the handle never change, and a LoadData on a handle with resolved data
\* returns those bytes with either deltaOK and touches neither the bucket,
\* nor the cache, nor the codec, nor the handle.
C12_LoadOnceThenCached ==
    [][/\ (Loads /\ lastOp'.err = "nil") =>
            /\ Has(After.meta, "data") /\ After.meta.data = lastOp'.data
            /\ Data(After) = lastOp'.data
            /\ ~Has(After.meta, "stub")
            /\ After.possibleDeltaSources = Nil
            /\ After.deltaSource = lastOp'.ret.sourceKey
            /\ Has(After.meta, "zdeltasrc") <=> lastOp'.ret.sourceKey # NoKey
            /\ Has(After.meta, "zdeltasrc") => After.meta.zdeltasrc = lastOp'.ret.sourceKey
       /\ \A i \in 1..Len(attachments) :
            Data(attachments[i]).type # "nil" => Data(attachments'[i]) = Data(attachments[i])
       /\ (IsOp("LoadData") /\ Data(Before).type # "nil") =>
            /\ ~lastOp'.called
            /\ lastOp'.data = Data(Before)
            /\ lastOp'.err = "nil"
            /\ UNCHANGED <<attachments, bucket, cache, lastCall>>]_vars

\* LoadData(false) on a handle that has loaded a delta and then been turned
\* into a following part has returned the delta again, without a call.
C12_Witness ==
    /\ lastOp.op = "LoadData"
    /\ ~lastOp.called
    /\ ~lastOp.arg
    /\ Follows(attachments[lastOp.i])
    /\ attachments[lastOp.i].deltaSource # NoKey
    /\ lastOp.data = attachments[lastOp.i].followingData
    /\ lastOp.data.type = "bytes"

\* Rules 2 to 4 of the classifier as the specification orders them: the
\* extension, then the content type, then the optimistic default.
ByNameAndType(a) ==
    IF kBadFilenames(Chars(a.Name)) THEN FALSE
    ELSE IF Has(a.meta, "content_type")
         THEN IF kCompressedTypes(Chars(ContentType(a))) THEN FALSE
              ELSE IF kGoodTypes(Chars(ContentType(a))) THEN TRUE
              ELSE IF kBadTypes(Chars(ContentType(a))) THEN FALSE
              ELSE TRUE
    ELSE TRUE

\* C13: Compressible() is false if a delta source is selected or the
\* record has a non-empty encoding; else false for an uncompressible
\* extension whatever the content type; else, with a content type, false
\* if it matches the generic-compressed pattern, else true if it matches
\* the known-compressible pattern, else false if it matches the
\* audio/image/video family, else true; and true without a content type.
C13_CompressibleDecisionOrder ==
    lastOp.op = "Compressible" =>
        LET a == attachments[lastOp.i]
        IN lastOp.compressible =
            IF a.deltaSource # NoKey \/ StringField(a, "encoding") # "" THEN FALSE
            ELSE ByNameAndType(a)

\* C14: Headers(full) sets Content-Encoding: zdelta and X-Delta-Source to
\* the source whenever a delta source is selected; without one it sets
\* Content-Encoding to the encoding field iff that field is not empty, and
\* no X-Delta-Source; it sets Content-Type (to the content type) iff full
\* and the content type is known, and Content-Disposition iff not full.
C14_HeadersRules ==
    lastOp.op = "Headers" =>
        LET a == attachments[lastOp.i]
            h == lastOp.headers
            full == lastOp.arg
        IN /\ a.deltaSource # NoKey =>
                /\ Has(h, "Content-Encoding") /\ h["Content-Encoding"] = "zdelta"
                /\ Has(h, "X-Delta-Source") /\ h["X-Delta-Source"] = a.deltaSource
           /\ a.deltaSource = NoKey =>
                /\ ~Has(h, "X-Delta-Source")
                /\ Has(h, "Content-Encoding") <=> StringField(a, "encoding") # ""
                /\ Has(h, "Content-Encoding") =>
                        h["Content-Encoding"] = StringField(a, "encoding")
           /\ Has(h, "Content-Type") <=> (full /\ ContentType(a) # "")
           /\ Has(h, "Content-Type") => h["Content-Type"] = ContentType(a)
           /\ Has(h, "Content-Disposition") <=> ~full

\* Headers(false) on a handle with a selected delta source has returned
\* zdelta, the source and Content-Disposition together.
C14_Witness ==
    /\ lastOp.op = "Headers"
    /\ ~lastOp.arg
    /\ attachments[lastOp.i].deltaSource # NoKey
    /\ Has(lastOp.headers, "Content-Encoding")
    /\ lastOp.headers["Content-Encoding"] = "zdelta"
    /\ Has(lastOp.headers, "X-Delta-Source")
    /\ lastOp.headers["X-Delta-Source"] = attachments[lastOp.i].deltaSource
    /\ Has(lastOp.headers, "Content-Disposition")

\* C18: a record whose encoding field is present but empty, with no delta
\* source selected, is classified by the extension and content-type rules
\* (so "a.txt" with text/plain is compressible), as Headers, which emits no
\* Content-Encoding for it, treats it.
C18_EmptyEncodingIsNoEncoding ==
    (/\ lastOp.op = "Compressible"
     /\ Has(attachments[lastOp.i].meta, "encoding")
     /\ attachments[lastOp.i].meta.encoding = ""
     /\ attachments[lastOp.i].deltaSource = NoKey)
    => /\ lastOp.compressible = ByNameAndType(attachments[lastOp.i])
       /\ ~Has(Headers(attachments[lastOp.i], TRUE), "Content-Encoding")

\* The candidates among q whose blob bucket b holds, in the order of q.
Present(q, b) == SelectSeq(q, LAMBDA x : attachmentKeyToDocKey(x) \in DOMAIN b)

\* C15: in a call that finds no cache entry for any candidate and fetches
\* the target, the candidates are tried in list order: their blobs are
\* fetched one after the other, the codec is invoked for exactly those that
\* are in the bucket (a missing one is skipped), and only as long as it
\* fails; its first non-empty delta is returned with that candidate as
\* source; its first empty delta ends the loop, with no later candidate
\* fetched or passed to the codec, and the full target is returned with the
\* empty source; when no candidate gives a delta, all have been tried and
\* the full target is returned with the empty source.
C15_GenerateInListOrder ==
    [][LET call == lastCall'
           ret == call.ret
           tried == Len(ret.fetched) - 1
           n == Len(ret.invoked)
           target == GetRaw(bucket, attachmentKeyToDocKey(call.key))
       IN (FirstCached(cache, call.key, call.sourceKeys) = 0 /\ target.err = "nil")
          => /\ ret.err = "nil"
             /\ tried \in 0..Len(call.sourceKeys)
             /\ ret.fetched = <<attachmentKeyToDocKey(call.key)>>
                    \o [j \in 1..tried |-> attachmentKeyToDocKey(call.sourceKeys[j])]
             /\ ret.invoked = Present(SubSeq(call.sourceKeys, 1, tried), bucket)
             /\ \A j \in 1..(n - 1) : call.answers[j] = "nil"
             /\ IF n > 0 /\ call.answers[n] = "delta"
                THEN /\ ret.invoked[n] = call.sourceKeys[tried]
                     /\ ret.sourceKey = ret.invoked[n]
                     /\ ret.result =
                            BytesData(ZDelta(bucket[attachmentKeyToDocKey(ret.invoked[n])],
                                             target.val))
                ELSE IF n > 0 /\ call.answers[n] = "empty"
                THEN /\ ret.invoked[n] = call.sourceKeys[tried]
                     /\ ret.sourceKey = NoKey
                     /\ ret.result = BytesData(target.val)
                ELSE /\ tried = Len(call.sourceKeys)
                     /\ ret.sourceKey = NoKey
                     /\ ret.result = BytesData(target.val)]_vars

\* A call with two candidates, both in the bucket and neither in the cache,
\* has returned the full target after the codec's empty delta for the
\* first, without trying the second.
C15_Witness ==
    /\ Len(lastCall.sourceKeys) = 2
    /\ \A j \in 1..2 :
        /\ attachmentKeyToDocKey(lastCall.sourceKeys[j]) \in DOMAIN bucket
        /\ ~Cached(cache, lastCall.key, lastCall.sourceKeys[j])
    /\ lastCall.ret.queried = lastCall.sourceKeys
    /\ lastCall.ret.invoked = <<lastCall.sourceKeys[1]>>
    /\ lastCall.answers = <<"empty">>
    /\ lastCall.ret.fetched = <<attachmentKeyToDocKey(lastCall.key),
                                attachmentKeyToDocKey(lastCall.sourceKeys[1])>>
    /\ lastCall.ret.sourceKey = NoKey
    /\ lastCall.ret.result = BytesData(TargetBlob)

\* C16: a call of GetAttachmentMaybeAsDelta made by LoadData returns an
\* error exactly when it fetches the full target and that fetch fails; a
\* missing candidate blob and a failed or empty delta give no error.
\* LoadData returns the error it receives, with no bytes, and leaves the
\* handle and the record as they were: stub still set, no data and no
\* zdeltasrc, no delta source, the candidate list kept.
C16_OnlyTargetFetchFails ==
    [][Loads =>
        LET ret == lastOp'.ret
            targetDocKey == attachmentKeyToDocKey(Key(Before))
            fetchedTarget == \E j \in 1..Len(ret.fetched) : ret.fetched[j] = targetDocKey
        IN /\ ret.err # "nil" <=> (fetchedTarget /\ targetDocKey \notin DOMAIN bucket)
           /\ targetDocKey \in DOMAIN bucket => ret.err = "nil"
           /\ lastOp'.err = ret.err
           /\ ret.err # "nil" =>
                /\ lastOp'.data = Nil
                /\ After = Before
                /\ Has(After.meta, "stub") /\ After.meta.stub = TRUE
                /\ ~Has(After.meta, "data")
                /\ ~Has(After.meta, "zdeltasrc")
                /\ After.deltaSource = NoKey
                /\ After.possibleDeltaSources = Before.possibleDeltaSources]_vars

\* LoadData(true) on a compressible handle with a candidate has returned
\* the error of the target fetch, and the handle still has its stub and
\* its candidate.
C16_Witness ==
    /\ lastOp.op = "LoadData"
    /\ lastOp.called
    /\ lastOp.arg
    /\ lastOp.sourceKeys # <<>>
    /\ lastOp.err # "nil"
    /\ lastOp.ret.queried = lastOp.sourceKeys
    /\ Has(attachments[lastOp.i].meta, "stub")
    /\ attachments[lastOp.i].possibleDeltaSources = ListVal(lastOp.sourceKeys)
    /\ attachments[lastOp.i].deltaSource = NoKey

\* C17: SetFollows on a handle whose record has a data field removes data
\* and zdeltasrc from the record and sets follows = true, while the handle
\* keeps its bytes (Data() returns the same bytes as before) and its delta
\* source, so that Headers(false) still gives Content-Encoding: zdelta and
\* X-Delta-Source; on a record without data it changes neither the record
\* nor the handle.
C17_SetFollowsKeepsBytes ==
    [][IsOp("SetFollows") =>
        IF Has(Before.meta, "data")
        THEN /\ ~Has(After.meta, "data")
             /\ ~Has(After.meta, "zdeltasrc")
             /\ Follows(After)
             /\ Data(After) = Before.meta.data
             /\ Data(After) = Data(Before)
             /\ After.deltaSource = Before.deltaSource
             /\ Before.deltaSource # NoKey =>
                    /\ Headers(After, FALSE)["Content-Encoding"] = "zdelta"
                    /\ Headers(After, FALSE)["X-Delta-Source"] = Before.deltaSource
        ELSE After = Before]_vars

\* SetFollows has turned a handle that had loaded a delta into a following
\* part: the delta is in followingData, the source still selected.
C17_Witness ==
    /\ lastOp.op = "SetFollows"
    /\ Follows(attachments[lastOp.i])
    /\ ~Has(attachments[lastOp.i].meta, "data")
    /\ attachments[lastOp.i].deltaSource # NoKey
    /\ attachments[lastOp.i].followingData.type = "bytes"
    /\ attachmentKeyToDocKey(attachments[lastOp.i].deltaSource) \in DOMAIN bucket
    /\ attachments[lastOp.i].followingData.val =
            ZDelta(bucket[attachmentKeyToDocKey(attachments[lastOp.i].deltaSource)],
                   TargetBlob)

(***************************************************************************)
(* Claims about the parent lookup of storeAttachments, under SpecStore.    *)
(***************************************************************************)
\* The body request p sent has inline entries only.
OnlyInline(p) ==
    \A n \in AttNames(orig[p]) :
        IsMap(Entry(orig[p], n)) /\ Has(Entry(orig[p], n).val, "data")

\* C19: within one storeAttachments call getAvailableRev is called at most
\* once, whatever the number of stub entries and whether or not the parent
\* revision is available and has an attachment map, and it is not called at
\* all for a body with inline entries only.
C19_ParentFetchedAtMostOnce ==
    \A p \in Procs :
        InCall(p) => /\ revGets[p] <= 1
                     /\ OnlyInline(p) => revGets[p] = 0

(***************************************************************************)
(* The round trip from storeAttachments through findAttachments to         *)
(* LoadData, under SpecRound: one writer ingests revisions one after the   *)
(* other while a reader takes the body of a saved revision, lists its      *)
(* attachments and loads them.                                             *)
(***************************************************************************)
\* The step saves the revision request p has ingested.
Saves(p) == Succeeded(p) /\ curGen' = generation[p] /\ curGen' # curGen

\* The record of attachment n in body d says the bytes are b.
RecordOf(d, n, b) ==
    /\ IsMap(Entry(d, n))
    /\ Has(Entry(d, n).val, "digest")
    /\ Entry(d, n).val.digest = SHA1DigestKey(b)

\* The places of the handles for name n in the list the reader holds.
HandlesFor(n) == {i \in 1..Len(attachments) : attachments[i].Name = n}

\* An inline entry with bytes b ingested at generation g is saved as a
\* record with the digest of b and revpos g.
C20_Ingested ==
    \A p \in Procs : \A n \in AttNames(orig[p]) : \A b \in Blobs :
        (Saves(p) /\ IsInlineOf(Entry(orig[p], n), b))
        => /\ RecordOf(curBody'.val, n, b)
           /\ Entry(curBody'.val, n).val.revpos = curGen'

\* The records of a saved body have their bytes in the bucket and a revpos
\* no later than the revision; once findAttachments has run with
\* minRevpos <= revpos there is one handle for the name, with that digest.
C20_Found ==
    \A n \in AttNames(findBody) : \A b \in Blobs :
        RecordOf(findBody, n, b)
        => /\ GetRaw(bucket, attachmentKeyToDocKey(SHA1DigestKey(b))) =
                  [err |-> "nil", val |-> b]
           /\ Has(Entry(findBody, n).val, "revpos")
           /\ Entry(findBody, n).val.revpos \in 1..curGen
           /\ (findArgs.called /\ findArgs.minRevpos <= Entry(findBody, n).val.revpos)
              => /\ Cardinality(HandlesFor(n)) = 1
                 /\ \A i \in HandlesFor(n) :
                       /\ Key(attachments[i]) = SHA1DigestKey(b)
                       /\ attachments[i].deltaSource = NoKey

\* LoadData(false) on a handle of such a record returns the bytes, without
\* a delta source.
C20_Loaded ==
    \A b \in Blobs :
        (IsOp("LoadData") /\ ~lastOp'.arg /\ Key(Before) = SHA1DigestKey(b))
        => /\ lastOp'.err = "nil"
           /\ lastOp'.data = BytesData(b)
           /\ After.deltaSource = NoKey
           /\ ~Has(After.meta, "zdeltasrc")

\* C20: round trip.  After storeAttachments has ingested an inline
\* attachment with bytes b at generation g, findAttachments on the
\* resulting body with minRevpos <= g returns a handle for that name, and
\* LoadData(false) on it returns exactly b with no delta source, whatever
\* other ingests happen in between.
C20_RoundTrip == []C20_Found /\ [][C20_Ingested /\ C20_Loaded]_vars

\* The reader has loaded the bytes of an attachment ingested in the first
\* revision, from a list made with minRevpos = 1, after the writer saved a
\* second revision that stored other bytes.
C20_Witness ==
    /\ lastOp.op = "LoadData"
    /\ lastOp.called
    /\ ~lastOp.arg
    /\ lastOp.err = "nil"
    /\ lastOp.data = BytesData(<<1>>)
    /\ lastOp.i \in 1..Len(attachments)
    /\ Data(attachments[lastOp.i]) = lastOp.data
    /\ Has(attachments[lastOp.i].meta, "revpos")
    /\ attachments[lastOp.i].meta.revpos = 1
    /\ attachments[lastOp.i].deltaSource = NoKey
    /\ findArgs.minRevpos = 1
    /\ curGen = 2
    /\ Cardinality(DOMAIN bucket) >= 2

====
